---- MODULE Spec2Model ----
(***************************************************************************)
(* The CloudWatch Logs pusher of plugins/outputs/cloudwatchlogs/pusher.go: *)
(* producers submit log events through AddEvent / AddEventNonBlocking onto *)
(* the bounded channel eventsCh; the single worker goroutine start()       *)
(* batches them and send() pushes a batch to the sink with PutLogEvents.   *)
(*                                                                         *)
(* Instants are whole milliseconds since the Unix epoch, the resolution of *)
(* the wire timestamp (UnixNano()/1000000); time.Time{} is ZeroTime and    *)
(* time.Now() is the instant Now throughout a run: the flush timer expires *)
(* at an unspecified moment after it was armed.  A message is modelled by  *)
(* its length.  An event carries the model-only tag id, its position in    *)
(* the order of the sends on eventsCh, which stands for the identity of    *)
(* the event and of its Done callback.                                     *)
(***************************************************************************)
EXTENDS Integers, Sequences, FiniteSets, TLC

----------------------------------------------------------------------------
(* Bounds of the model.  reqSizeLimit, reqEventsLimit, msgSizeLimit,       *)
(* truncatedSuffixLen and EventsChCap stand for the program's 1024*1024,   *)
(* 10000, 262144, len(truncatedSuffix) and 100, scaled down so that every  *)
(* limit is reached within MaxEvents events.  Now is the wall clock of the *)
(* run; maxDuration stands for the saturated time.Duration, beyond every   *)
(* threshold the program compares a duration with.                         *)
MaxEvents == 3
NumProducers == 2
NumTokens == 1
CounterCap == 3
EventsChCap == 2
reqSizeLimit == 85
reqEventsLimit == 2
msgSizeLimit == 20
truncatedSuffixLen == 14
LongMessage == 30
ShortMessage == 1
Now == 1500000000
maxDuration == 2000000000

(* Program constants: the per-event overhead, time.Hour in milliseconds,   *)
(* and the zero instant, below every instant a producer can stamp.         *)
eventHeaderSize == 26
Hour == 3600000
ZeroTime == 0

Producers == 1..NumProducers
Ids == 1..MaxEvents
Tokens == 1..NumTokens
TokenOpt == {<<>>} \cup {<<t>> : t \in Tokens}

Min(a, b) == IF a < b THEN a ELSE b
IdsOf(s) == {s[i].id : i \in 1..Len(s)}
IdSeq(s) == [i \in 1..Len(s) |-> s[i].id]
Increasing(s) == \A i, j \in 1..Len(s) : i < j => s[i] < s[j]

----------------------------------------------------------------------------
VARIABLES
    eventsCh,              \* p.eventsCh: the events pending in the channel
    pcP, arg,              \* each producer's position and the event it submits
    nextId,                \* the tag of the next event sent on eventsCh
    p,                     \* the pusher's fields that only the worker touches
    pc, ret,               \* the worker's position and the call site of send()
    cur, ce,               \* start()'s locals e and ce
    timerArmed, timerC,    \* p.flushTimer: running; a value pending in its C
    ctxDone,               \* p.ctx is cancelled
    input,                 \* the PutLogEvents request in flight
    \* history variables, read only by the properties
    refused,               \* the kinds of events that failed the admission check
    badIds,                \* ids of the inadmissible events sent on eventsCh
    evicted, evictedEarly, \* AddEventNonBlocking's discards; one below capacity
    doneSet, doneTwice,    \* callbacks invoked; some callback invoked again
    wireOrder, queueOrder, \* every flush invoked its callbacks in that order
    last,                  \* the last PutLogEvents call that returned
    stop,                  \* what Stop() found and what the worker did after it
    reply,                 \* the sink call that returned last since the worker
                           \* left its select, and its result
    stored,                \* the token a response delivered last
    lost,                  \* ids of the events of the requests send() gave up
    shutting               \* the worker has taken the arm of p.ctx.Done()

vars == <<eventsCh, pcP, arg, nextId, p, pc, ret, cur, ce, timerArmed, timerC,
          ctxDone, input, refused, badIds, evicted, evictedEarly, doneSet,
          doneTwice, wireOrder, queueOrder, last, stop, reply, stored, lost,
          shutting>>

producerVars == <<pcP, arg, nextId>>
workerVars == <<p, pc, ret, cur, ce, input, shutting>>
timerVars == <<timerArmed, timerC>>
sinkHist == <<doneSet, doneTwice, wireOrder, queueOrder, last, stored, lost>>
ingressHist == <<refused, badIds, evicted, evictedEarly>>

\* Stop() has not been called, or not in the case the shutdown drain is about
NoStop == [premise |-> FALSE, ids |-> {}, inHand |-> FALSE, received |-> FALSE,
           puts |-> 0, put |-> {}]

NoEvent == [id |-> 0, time |-> ZeroTime, msg |-> 0]
NoWire == [id |-> 0, Message |-> 0, Timestamp |-> 0]
NoRequest == [LogEvents |-> <<>>, SequenceToken |-> <<>>]

\* the fields of a pusher that buffers nothing: no buffer is held back
NoHeld == [events |-> <<>>, doneCallbacks |-> <<>>, bufferredSize |-> 0,
           minT |-> <<>>, maxT |-> <<>>, needSort |-> FALSE,
           sequenceToken |-> <<>>, lastValidTime |-> 0]

\* no sink call has returned yet
NoReply == [call |-> "none", type |-> "none", token |-> <<>>, held |-> NoHeld]

----------------------------------------------------------------------------
(* time.Time arithmetic *)

\* t.Sub(u).  The zero instant lies more than 292 years before every instant
\* of the model, so a difference with it saturates, as time.Time.Sub does.
Sub(t, u) ==
    IF t = u THEN 0
    ELSE IF u = ZeroTime THEN maxDuration
    ELSE IF t = ZeroTime THEN 0 - maxDuration
    ELSE t - u

After(t, u) == t > u
Before(t, u) == t < u
IsZero(t) == t = ZeroTime

\* hasValidTime without its bound on the future
hasValidTimeNoFuture(e) ==
    IF ~IsZero(e.time)
    THEN LET dt == Sub(Now, e.time) IN ~(dt > 24 * 14 * Hour)
    ELSE TRUE

hasValidTime(e) ==
    IF ~IsZero(e.time)
    THEN LET dt == Sub(Now, e.time)
         IN  ~(dt > 24 * 14 * Hour \/ dt < 0 - 2 * Hour)
    ELSE TRUE

\* convertEvent: the wire event and the new p.lastValidTime
convertEvent(e, lvt) ==
    LET message == IF e.msg > msgSizeLimit
                   THEN (msgSizeLimit - truncatedSuffixLen) + truncatedSuffixLen
                   ELSE e.msg
        t == IF IsZero(e.time)
             THEN (IF lvt # 0 THEN lvt ELSE Now)
             ELSE e.time
    IN  [ce |-> [id |-> e.id, Message |-> message, Timestamp |-> t],
         lastValidTime |-> IF IsZero(e.time) THEN lvt ELSE t]

\* ByTimestamp.Less
Less(a, b) == a.Timestamp < b.Timestamp

RECURSIVE InsertByTimestamp(_, _)
InsertByTimestamp(s, x) ==
    IF s = <<>> THEN <<x>>
    ELSE IF Less(x, s[Len(s)])
         THEN Append(InsertByTimestamp(SubSeq(s, 1, Len(s) - 1), x), s[Len(s)])
         ELSE Append(s, x)

\* sort.Stable(ByTimestamp(s))
RECURSIVE SortStable(_)
SortStable(s) ==
    IF s = <<>> THEN <<>>
    ELSE InsertByTimestamp(SortStable(SubSeq(s, 1, Len(s) - 1)), s[Len(s)])

\* what producers submit: an instant and a message length
Submissions ==
    {[time |-> Now, msg |-> ShortMessage],
     [time |-> Now, msg |-> LongMessage],
     [time |-> Now - Hour, msg |-> ShortMessage],
     [time |-> Now - 25 * Hour, msg |-> ShortMessage],
     [time |-> ZeroTime, msg |-> ShortMessage],
     [time |-> Now - 24 * 14 * Hour - 1, msg |-> ShortMessage],
     [time |-> Now + 2 * Hour + 1, msg |-> ShortMessage]}

\* the claim's side of admission: a non-zero instant more than 14 days before
\* now or more than 2 hours after it
Inadmissible(t) ==
    t # ZeroTime /\ (Now - t > 14 * 24 * Hour \/ t - Now > 2 * Hour)

\* an instant as the admission rule sees it
Kind(t) ==
    IF t = ZeroTime THEN "zero"
    ELSE IF Inadmissible(t) THEN "inadmissible" ELSE "admissible"

----------------------------------------------------------------------------
\* NewPusher
Init ==
    /\ eventsCh = <<>>
    /\ pcP = [q \in Producers |-> "idle"]
    /\ arg = [q \in Producers |-> NoEvent]
    /\ nextId = 1
    /\ p = [events |-> <<>>, doneCallbacks |-> <<>>, bufferredSize |-> 0,
            minT |-> <<>>, maxT |-> <<>>, needSort |-> FALSE,
            sequenceToken |-> <<>>, lastValidTime |-> 0]
    /\ pc = "select" /\ ret = "none"
    /\ cur = NoEvent /\ ce = NoWire
    /\ timerArmed = TRUE /\ timerC = 0
    /\ ctxDone = FALSE
    /\ input = NoRequest
    /\ refused = {} /\ badIds = {}
    /\ evicted = {} /\ evictedEarly = FALSE
    /\ doneSet = {} /\ doneTwice = FALSE
    /\ wireOrder = TRUE /\ queueOrder = TRUE
    /\ last = [ids |-> {}, result |-> "none"]
    /\ stop = NoStop
    /\ reply = NoReply /\ stored = <<>> /\ lost = {}
    /\ shutting = FALSE

----------------------------------------------------------------------------
(* The flush timer *)

\* The running timer expires: the runtime sends on flushTimer.C (capacity 1,
\* non-blocking send).
TimerFire ==
    /\ timerArmed
    /\ timerArmed' = FALSE /\ timerC' = 1
    /\ UNCHANGED <<eventsCh, producerVars, workerVars, ctxDone, sinkHist, reply,
                   ingressHist, stop>>

----------------------------------------------------------------------------
(* Producers.  A send blocked on the full channel completes in a step of   *)
(* its own once the channel has room; the Go runtime completes it within   *)
(* the receive that makes the room, so the model allows every order that   *)
(* the program does, and some more.                                        *)

\* a send on eventsCh succeeds: the event takes the next place in the channel
Enqueue(e) ==
    /\ eventsCh' = Append(eventsCh, [e EXCEPT !.id = nextId])
    /\ nextId' = nextId + 1
    /\ badIds' = IF Inadmissible(e.time) THEN badIds \cup {nextId} ELSE badIds

\* the events still to be sent fit the model's bound
MaySubmit(q) ==
    /\ pcP[q] = "idle"
    /\ nextId + Cardinality({r \in Producers : pcP[r] # "idle"}) <= MaxEvents

\* AddEvent up to the point where it blocks or returns
AddEvent(q) ==
    \E s \in Submissions :
      LET e == [id |-> 0, time |-> s.time, msg |-> s.msg] IN
        /\ MaySubmit(q)
        /\ IF ~hasValidTime(e)
           THEN /\ refused' = refused \cup {Kind(e.time)}
                /\ UNCHANGED <<eventsCh, producerVars, badIds>>
           ELSE /\ IF Len(eventsCh) < EventsChCap
                   THEN Enqueue(e) /\ UNCHANGED <<pcP, arg>>
                   ELSE /\ pcP' = [pcP EXCEPT ![q] = "L73"]
                        /\ arg' = [arg EXCEPT ![q] = e]
                        /\ UNCHANGED <<eventsCh, nextId, badIds>>
                /\ UNCHANGED refused
        /\ UNCHANGED <<workerVars, timerVars, ctxDone, sinkHist, reply, evicted,
                       evictedEarly, stop>>

\* p.eventsCh <- e in AddEvent, once the channel has room
AddEventSend(q) ==
    /\ pcP[q] = "L73" /\ Len(eventsCh) < EventsChCap
    /\ Enqueue(arg[q])
    /\ pcP' = [pcP EXCEPT ![q] = "idle"]
    /\ arg' = [arg EXCEPT ![q] = NoEvent]
    /\ UNCHANGED <<workerVars, timerVars, ctxDone, sinkHist, reply, refused, evicted,
                   evictedEarly, stop>>

\* the select of AddEventNonBlocking: send if there is room, else default
TrySend(q, e) ==
    IF Len(eventsCh) < EventsChCap
    THEN /\ Enqueue(e)
         /\ pcP' = [pcP EXCEPT ![q] = "idle"]
         /\ arg' = [arg EXCEPT ![q] = NoEvent]
    ELSE /\ pcP' = [pcP EXCEPT ![q] = "L87"]
         /\ arg' = [arg EXCEPT ![q] = e]
         /\ UNCHANGED <<eventsCh, nextId, badIds>>

\* AddEventNonBlocking through the first pass of its select
AddEventNonBlocking(q) ==
    \E s \in Submissions :
      LET e == [id |-> 0, time |-> s.time, msg |-> s.msg] IN
        /\ MaySubmit(q)
        /\ IF ~hasValidTime(e)
           THEN /\ refused' = refused \cup {Kind(e.time)}
                /\ UNCHANGED <<eventsCh, producerVars, badIds>>
           ELSE TrySend(q, e) /\ UNCHANGED refused
        /\ UNCHANGED <<workerVars, timerVars, ctxDone, sinkHist, reply, evicted,
                       evictedEarly, stop>>

\* <-p.eventsCh in the default branch: a blocking receive; the value is dropped
NonBlockingReceive(q) ==
    /\ pcP[q] = "L87" /\ Len(eventsCh) > 0
    /\ eventsCh' = Tail(eventsCh)
    /\ evicted' = evicted \cup {Head(eventsCh).id}
    /\ evictedEarly' = (evictedEarly \/ Len(eventsCh) < EventsChCap)
    /\ pcP' = [pcP EXCEPT ![q] = "L83"]
    /\ UNCHANGED <<arg, nextId, workerVars, timerVars, ctxDone, sinkHist, reply,
                   refused, badIds, stop>>

\* the next pass of the loop of AddEventNonBlocking
NonBlockingSelect(q) ==
    /\ pcP[q] = "L83"
    /\ TrySend(q, arg[q])
    /\ UNCHANGED <<workerVars, timerVars, ctxDone, sinkHist, reply, refused, evicted,
                   evictedEarly, stop>>

\* Stop: p.cancelFn()
Stop ==
    /\ ~ctxDone
    /\ ctxDone' = TRUE
    /\ stop' = IF Len(p.events) > 0 /\ eventsCh = <<>>
               THEN [premise |-> TRUE, ids |-> IdsOf(p.events),
                     inHand |-> cur # NoEvent, received |-> FALSE,
                     puts |-> IF pc = "PutLogEvents" THEN 1 ELSE 0,
                     put |-> IF pc = "PutLogEvents" THEN IdsOf(input.LogEvents)
                             ELSE {}]
               ELSE NoStop
    /\ UNCHANGED <<eventsCh, producerVars, workerVars, timerVars, sinkHist, reply,
                   ingressHist>>

----------------------------------------------------------------------------
(* The worker's code between two waits, as functions of the pusher's fields. *)
(* A step of the worker runs from one wait (the select of start(), or a call *)
(* of the sink) to the next; the result of a step is the record              *)
(* [p, pc, ret, cur, ce].                                                    *)

\* the condition of the 24-hour span check on the arriving event's time
SpanExceeded(p0, et) ==
    \/ (p0.minT # <<>> /\ Sub(et, p0.minT[1]) > 24 * Hour)
    \/ (p0.maxT # <<>> /\ Sub(p0.maxT[1], et) > 24 * Hour)

\* the condition of the size and count check on the converted event
LimitReached(p0, size) ==
    p0.bufferredSize + size > reqSizeLimit \/ Len(p0.events) = reqEventsLimit

\* the needSort test on the event about to be appended
OutOfOrder(p0, w) ==
    Len(p0.events) > 0 /\ w.Timestamp < p0.events[Len(p0.events)].Timestamp

\* send() that never sorts
SortForSendUnsorted(p0) == p0

\* send() that keeps each callback with its event when it sorts
SortForSendPaired(p0) ==
    IF p0.needSort
    THEN [p0 EXCEPT !.events = SortStable(@),
                    !.doneCallbacks = IdSeq(SortStable(p0.events))]
    ELSE p0

\* the head of send(): sort if needSort
SortForSend(p0) ==
    [p0 EXCEPT !.events = IF p0.needSort THEN SortStable(@) ELSE @]

\* the PutLogEventsInput send() builds
Request(p0) == [LogEvents |-> p0.events, SequenceToken |-> p0.sequenceToken]

\* reset that leaves the callbacks in place
resetKeepCallbacks(p0) ==
    [p0 EXCEPT !.events = <<>>, !.bufferredSize = 0,
               !.needSort = FALSE, !.minT = <<>>, !.maxT = <<>>]

\* reset that leaves the events in place
resetKeepEvents(p0) ==
    [p0 EXCEPT !.doneCallbacks = <<>>, !.bufferredSize = 0,
               !.needSort = FALSE, !.minT = <<>>, !.maxT = <<>>]

\* reset
reset(p0) ==
    [p0 EXCEPT !.events = <<>>, !.doneCallbacks = <<>>, !.bufferredSize = 0,
               !.needSort = FALSE, !.minT = <<>>, !.maxT = <<>>]

\* send() called from the line `site`, up to its call of PutLogEvents
CallSend(p0, site, e, w) ==
    [p |-> SortForSend(p0), pc |-> "PutLogEvents", ret |-> site, cur |-> e, ce |-> w]

\* back in the select of start()
Waiting(p0) ==
    [p |-> p0, pc |-> "select", ret |-> "none", cur |-> NoEvent, ce |-> NoWire]

\* start() after `return`
Exited(p0) ==
    [p |-> p0, pc |-> "exited", ret |-> "none", cur |-> NoEvent, ce |-> NoWire]

\* the append of the event to the buffer and the update of minT and maxT
AppendEvent(p0, e, w) ==
    LET et == e.time
        size == w.Message + eventHeaderSize
    IN  Waiting([p0 EXCEPT
            !.needSort = IF OutOfOrder(p0, w) THEN TRUE ELSE @,
            !.events = Append(@, w),
            !.doneCallbacks = Append(@, e.id),
            !.bufferredSize = @ + size,
            !.minT = IF @ = <<>> \/ After(@[1], et) THEN <<et>> ELSE @,
            !.maxT = IF @ = <<>> \/ Before(@[1], et) THEN <<et>> ELSE @])

\* convertEvent and the size and count check
ConvertAndCheck(p0, e) ==
    LET c == convertEvent(e, p0.lastValidTime)
        p1 == [p0 EXCEPT !.lastValidTime = c.lastValidTime]
        size == c.ce.Message + eventHeaderSize
    IN  IF LimitReached(p1, size)
        THEN CallSend(p1, "L128", e, c.ce)
        ELSE AppendEvent(p1, e, c.ce)

\* the span check on the event just received
SpanCheck(p0, e) ==
    IF SpanExceeded(p0, e.time)
    THEN CallSend(p0, "L122", e, NoWire)
    ELSE ConvertAndCheck(p0, e)

\* the outermost send() returns to the line after its call
SendReturns(p0, site, e, w) ==
    CASE site = "L122" -> ConvertAndCheck(p0, e)
      [] site = "L128" -> AppendEvent(p0, e, w)
      [] site = "L147" -> Waiting(p0)
      [] site = "L151" -> Exited(p0)

\* the timer arm that calls send() on an empty buffer too
OnFlushTimerUnguarded(p0) == CallSend(p0, "L147", NoEvent, NoWire)

\* the arm of the select taken on the timer's channel
OnFlushTimer(p0) ==
    IF Len(p0.events) > 0 THEN CallSend(p0, "L147", NoEvent, NoWire) ELSE Waiting(p0)

\* the shutdown arm that returns without the final flush
OnCtxDoneNoFlush(p0) == Exited(p0)

\* the shutdown arm that flushes and stays in the loop
OnCtxDoneNoReturn(p0) ==
    IF Len(p0.events) > 0 THEN CallSend(p0, "L147", NoEvent, NoWire) ELSE Waiting(p0)

\* the arm of the select taken on p.ctx.Done()
OnCtxDone(p0) ==
    IF Len(p0.events) > 0 THEN CallSend(p0, "L151", NoEvent, NoWire) ELSE Exited(p0)

Bump(n) == Min(n + 1, CounterCap)

\* the worker reaches its next wait; a PutLogEvents call is noted
Reach(r) ==
    /\ p' = r.p /\ pc' = r.pc /\ ret' = r.ret /\ cur' = r.cur /\ ce' = r.ce
    /\ input' = IF r.pc = "PutLogEvents" THEN Request(r.p) ELSE NoRequest

\* what the worker did since a Stop() that found the buffer non-empty and the
\* channel empty, for as long as the sink accepts the requests
NotePut(r, received, failed) ==
    stop' =
        IF ~stop.premise THEN stop
        ELSE IF failed THEN NoStop
        ELSE [stop EXCEPT
                !.puts = IF r.pc = "PutLogEvents" THEN Bump(@) ELSE @,
                !.put = IF r.pc = "PutLogEvents" /\ stop.puts = 0
                        THEN IdsOf(r.p.events) ELSE @,
                !.received = @ \/ received]

----------------------------------------------------------------------------
(* The worker: start() *)

\* case e := <-p.eventsCh
EventCase ==
    /\ pc = "select" /\ eventsCh # <<>>
    /\ eventsCh' = Tail(eventsCh)
    /\ IF Len(p.events) = 0
       THEN timerArmed' = TRUE /\ UNCHANGED timerC      \* resetFlushTimer
       ELSE UNCHANGED timerVars
    /\ LET r == SpanCheck(p, Head(eventsCh)) IN Reach(r) /\ NotePut(r, TRUE, FALSE)
    /\ reply' = NoReply
    /\ UNCHANGED <<producerVars, ctxDone, sinkHist, ingressHist, shutting>>

\* case <-p.flushTimer.C
TimerCase ==
    /\ pc = "select" /\ timerC = 1
    /\ timerC' = 0
    /\ LET r == OnFlushTimer(p) IN Reach(r) /\ NotePut(r, FALSE, FALSE)
    /\ reply' = NoReply
    /\ UNCHANGED <<eventsCh, producerVars, timerArmed, ctxDone, sinkHist,
                   ingressHist, shutting>>

\* case <-p.ctx.Done()
CtxDoneCase ==
    /\ pc = "select" /\ ctxDone
    /\ LET r == OnCtxDone(p) IN Reach(r) /\ NotePut(r, FALSE, FALSE)
    /\ reply' = NoReply /\ shutting' = TRUE
    /\ UNCHANGED <<eventsCh, producerVars, timerVars, ctxDone, sinkHist,
                   ingressHist>>

----------------------------------------------------------------------------
(* send() from the return of a sink call *)

PutResponses ==
    [type : {"ok"}, NextSequenceToken : TokenOpt, RejectedLogEventsInfo : BOOLEAN]
    \cup [type : {"InvalidSequenceToken"}, ExpectedSequenceToken : TokenOpt]
    \cup [type : {"ResourceNotFound", "awsOther", "nonAws"}]

\* for _, done := range p.doneCallbacks { done() }
\* cbs[i] is the id of the event whose Done is the i-th callback invoked;
\* wire is the ids of the request's events in their order on the wire
InvokeCallbacks(cbs, wire) ==
    /\ doneSet' = doneSet \cup {cbs[i] : i \in 1..Len(cbs)}
    /\ doneTwice' = (doneTwice
                     \/ (\E i \in 1..Len(cbs) : cbs[i] \in doneSet)
                     \/ (\E i, j \in 1..Len(cbs) : i # j /\ cbs[i] = cbs[j]))
    /\ wireOrder' = (wireOrder /\ cbs = wire)
    /\ queueOrder' = (queueOrder /\ Increasing(cbs)
                                 /\ {cbs[i] : i \in 1..Len(cbs)}
                                      = {wire[i] : i \in 1..Len(wire)})

\* how a PutLogEvents call ended: without error, with an error that send()
\* answers by reset(), or with one of the two errors it recovers from
Outcome(resp) ==
    CASE resp.type = "ok" -> "ok"
      [] resp.type \in {"nonAws", "awsOther"} -> "dropped"
      [] OTHER -> "recoverable"

\* the sink call `call` returned `type`; `held` is the buffer send() holds on
\* to.  The errors that send() does not tell apart are noted as one: those it
\* answers by reset(), and those createLogGroupAndStream returns to it.
Replied(call, type, token, held) ==
    [call |-> call, type |-> type, token |-> token, held |-> held]

\* createLogGroupAndStream returned an error to send()
CreationFailed(held) == Replied("createLogGroupAndStream", "error", <<>>, held)

\* an InvalidSequenceTokenException whose expected token is not adopted
AdoptNothing(p0, resp) == p0

\* p.sequenceToken = e.ExpectedSequenceToken
Adopt(p0, resp) == [p0 EXCEPT !.sequenceToken = resp.ExpectedSequenceToken]

\* an error send() does not recover from, with the buffer left as it is
DiscardNothing(p0) == p0

\* the non-aws and the default branch of send(): the buffer is given up
Discard(p0) == reset(p0)

\* what send() does with the return of p.Service.PutLogEvents
AfterPut(p0, resp) ==
    CASE resp.type = "ok" ->
           SendReturns(reset([p0 EXCEPT !.sequenceToken =
                                 IF resp.NextSequenceToken # <<>>
                                 THEN resp.NextSequenceToken ELSE @]),
                       ret, cur, ce)
      [] resp.type \in {"nonAws", "awsOther"} ->
           SendReturns(Discard(p0), ret, cur, ce)
      [] resp.type = "ResourceNotFound" ->
           [p |-> p0, pc |-> "CreateLogGroup", ret |-> ret, cur |-> cur, ce |-> ce]
      [] resp.type = "InvalidSequenceToken" ->
           IF resp.ExpectedSequenceToken = <<>>
           THEN SendReturns(p0, ret, cur, ce)
           ELSE CallSend(Adopt(p0, resp), ret, cur, ce)

\* p.Service.PutLogEvents returns
PutLogEventsReturn(resp) ==
    /\ pc = "PutLogEvents"
    /\ IF resp.type = "ok"
       THEN InvokeCallbacks(p.doneCallbacks, IdSeq(input.LogEvents))
       ELSE UNCHANGED <<doneSet, doneTwice, wireOrder, queueOrder>>
    /\ last' = [ids |-> IdsOf(input.LogEvents), result |-> Outcome(resp)]
    /\ reply' = IF Outcome(resp) = "recoverable"
                THEN Replied("PutLogEvents", resp.type,
                             IF resp.type = "InvalidSequenceToken"
                             THEN resp.ExpectedSequenceToken ELSE <<>>, p)
                ELSE Replied("PutLogEvents", Outcome(resp), <<>>, NoHeld)
    /\ stored' = IF resp.type = "ok" /\ resp.NextSequenceToken # <<>>
                 THEN resp.NextSequenceToken
                 ELSE IF resp.type = "InvalidSequenceToken"
                         /\ resp.ExpectedSequenceToken # <<>>
                 THEN resp.ExpectedSequenceToken
                 ELSE stored
    /\ lost' = IF Outcome(resp) = "dropped"
               THEN lost \cup IdsOf(input.LogEvents) ELSE lost
    /\ LET r == AfterPut(p, resp) IN Reach(r) /\ NotePut(r, FALSE, resp.type # "ok")
    /\ UNCHANGED <<eventsCh, producerVars, timerVars, ctxDone, ingressHist,
                   shutting>>

\* createLogGroupAndStream gives up whenever CreateLogGroup returns an error
GroupCreatedStrict(err) == err = "nil"

\* createLogGroupAndStream goes on to CreateLogStream: no error, or the group
\* exists already
GroupCreated(err) == err \in {"nil", "ResourceAlreadyExists"}

\* createLogGroupAndStream: p.Service.CreateLogGroup returns
CreateLogGroupReturn(err) ==
    /\ pc = "CreateLogGroup"
    /\ reply' = IF err \in {"awsOther", "nonAws"}
                THEN CreationFailed(reply.held)
                ELSE Replied("CreateLogGroup", err, <<>>, reply.held)
    /\ LET r == IF GroupCreated(err)
                THEN [p |-> p, pc |-> "CreateLogStream", ret |-> ret,
                      cur |-> cur, ce |-> ce]
                ELSE SendReturns(p, ret, cur, ce)
       IN  Reach(r) /\ NotePut(r, FALSE, FALSE)
    /\ UNCHANGED <<eventsCh, producerVars, timerVars, ctxDone, sinkHist,
                   ingressHist, shutting>>

\* createLogGroupAndStream: p.Service.CreateLogStream returns
CreateLogStreamReturn(err) ==
    /\ pc = "CreateLogStream"
    /\ reply' = IF err = "nil"
                THEN Replied("CreateLogStream", err, <<>>, reply.held)
                ELSE CreationFailed(reply.held)
    /\ LET r == IF err = "nil"
                THEN CallSend(p, ret, cur, ce)
                ELSE SendReturns(p, ret, cur, ce)
       IN  Reach(r) /\ NotePut(r, FALSE, FALSE)
    /\ UNCHANGED <<eventsCh, producerVars, timerVars, ctxDone, sinkHist,
                   ingressHist, shutting>>

----------------------------------------------------------------------------
Next ==
    \/ TimerFire
    \/ \E q \in Producers : AddEvent(q)
    \/ \E q \in Producers : AddEventSend(q)
    \/ \E q \in Producers : AddEventNonBlocking(q)
    \/ \E q \in Producers : NonBlockingReceive(q)
    \/ \E q \in Producers : NonBlockingSelect(q)
    \/ Stop
    \/ EventCase
    \/ TimerCase
    \/ CtxDoneCase
    \/ \E resp \in PutResponses : PutLogEventsReturn(resp)
    \/ \E err \in {"nil", "ResourceAlreadyExists", "awsOther", "nonAws"} :
          CreateLogGroupReturn(err)
    \/ \E err \in {"nil", "error"} : CreateLogStreamReturn(err)

Spec == Init /\ [][Next]_vars

\* a select of start() with a ready arm takes one (lines 112-153)
SelectProceeds == EventCase \/ TimerCase \/ CtxDoneCase

\* the sink call the worker is blocked in returns (lines 179, 238, 248)
SinkReturns ==
    \/ \E resp \in PutResponses : PutLogEventsReturn(resp)
    \/ \E err \in {"nil", "ResourceAlreadyExists", "awsOther", "nonAws"} :
          CreateLogGroupReturn(err)
    \/ \E err \in {"nil", "error"} : CreateLogStreamReturn(err)

\* the worker goroutine keeps running and every sink call returns; what the
\* sink answers, and what the producers and Stop() do, is left open
FairSpec == Spec /\ WF_vars(SelectProceeds) /\ WF_vars(SinkReturns)

TypeOK ==
    /\ Len(eventsCh) <= EventsChCap
    /\ Len(p.events) = Len(p.doneCallbacks)

----------------------------------------------------------------------------
(* Properties *)

RECURSIVE BufferedBytes(_)
BufferedBytes(evs) ==
    IF evs = <<>> THEN 0
    ELSE evs[1].Message + eventHeaderSize + BufferedBytes(Tail(evs))

NonDecreasing(evs) ==
    \A i, j \in 1..Len(evs) : i < j => evs[i].Timestamp <= evs[j].Timestamp

\* C1: whenever the worker invokes PutLogEvents, the bytes of the request
\* (message length + eventHeaderSize per event) are at most reqSizeLimit and
\* its events at most reqEventsLimit.
C1_SizeBound ==
    pc = "PutLogEvents" =>
        /\ BufferedBytes(input.LogEvents) <= reqSizeLimit
        /\ p.bufferredSize <= reqSizeLimit
        /\ Len(input.LogEvents) <= reqEventsLimit

\* C2: whenever the buffer is non-empty and the worker waits in its loop or
\* is invoking PutLogEvents, maxT - minT is at most 24 hours.
C2_SpanBound ==
    (Len(p.events) > 0 /\ pc \in {"select", "PutLogEvents"}) =>
        Sub(p.maxT[1], p.minT[1]) <= 24 * Hour

\* C3: the events of every PutLogEvents request, first attempts and inline
\* retries alike, are non-decreasing by timestamp.
C3_Order ==
    pc = "PutLogEvents" => NonDecreasing(input.LogEvents)

\* a request in flight whose events went out in another order than they arrived
C3_Witness ==
    /\ pc = "PutLogEvents"
    /\ Len(input.LogEvents) >= 2
    /\ ~Increasing(IdSeq(input.LogEvents))

\* C4: no callback is invoked more than once, and when a PutLogEvents call
\* has returned without error the callback of every event of that request
\* has been invoked and the buffer is cleared.
C4_Callbacks ==
    /\ ~doneTwice
    /\ last.result = "ok" => last.ids \subseteq doneSet
    /\ \A i \in 1..Len(p.doneCallbacks) : p.doneCallbacks[i] \notin doneSet

\* two successful flushes, the later one of two events or more
C4_Witness ==
    /\ last.result = "ok"
    /\ Cardinality(last.ids) >= 2
    /\ Cardinality(doneSet) > Cardinality(last.ids)

\* C5 as stated: a PutLogEvents request shares no event with the request
\* before it.
C5_NoDoubleSend ==
    (pc = "PutLogEvents" /\ last.result # "none") =>
        IdsOf(input.LogEvents) \cap last.ids = {}

\* C5 as amended: a PutLogEvents request shares no event with the request
\* before it when that one returned without error or with an error other
\* than ResourceNotFoundException and InvalidSequenceTokenException.
C5_NoResendAfterFinal ==
    (pc = "PutLogEvents" /\ last.result \in {"ok", "dropped"}) =>
        IdsOf(input.LogEvents) \cap last.ids = {}

\* a request in flight after a request that ended with the buffer cleared
C5_Witness ==
    /\ pc = "PutLogEvents"
    /\ last.result \in {"ok", "dropped"}
    /\ last.ids # {}

\* C6: an event whose non-zero time is more than 14 days before now or more
\* than 2 hours after it is never sent on eventsCh, never part of a request,
\* and its callback is never invoked; a zero-time event is never refused.
C6_Admission ==
    /\ \A q \in Producers : pcP[q] # "idle" => ~Inadmissible(arg[q].time)
    /\ \A i \in 1..Len(eventsCh) : ~Inadmissible(eventsCh[i].time)
    /\ badIds = {}
    /\ badIds \cap (doneSet \cup IdsOf(input.LogEvents) \cup IdsOf(p.events)) = {}
    /\ "zero" \notin refused

\* an inadmissible event was refused and a zero-time event is in the channel
C6_Witness ==
    /\ "inadmissible" \in refused
    /\ \E i \in 1..Len(eventsCh) : eventsCh[i].time = ZeroTime

\* C7 as stated: on a successful flush the i-th callback invoked belongs to
\* the i-th event of the request.
C7_WireOrder == wireOrder

\* C7 as amended: on a successful flush the callbacks invoked are those of
\* the request's events, in the order the worker received the events.
C7_QueueOrder == queueOrder

\* a successful flush whose request was not in the order of arrival
C7_Witness == ~wireOrder /\ doneSet # {}

\* the conclusion of the shutdown drain
Drained ==
    /\ stop.puts = 1
    /\ stop.put = stop.ids
    /\ stop.ids \subseteq doneSet
    /\ input = NoRequest

\* C8 as stated: Stop() with n > 0 events buffered and the channel empty,
\* and a sink that accepts: the worker makes exactly one PutLogEvents call,
\* with those n events, invokes their callbacks and exits.
C8_ShutdownDrain ==
    (pc = "exited" /\ stop.premise) => Drained

\* C8 as amended: the same, when at Stop() the worker holds no event that it
\* has received and not yet buffered, and receives none afterwards.
C8_ShutdownDrainQuiet ==
    (pc = "exited" /\ stop.premise /\ ~stop.inHand /\ ~stop.received) => Drained

\* the worker has exited after such a Stop() over a buffer of two events
C8_Witness ==
    /\ pc = "exited" /\ stop.premise /\ ~stop.inHand /\ ~stop.received
    /\ Cardinality(stop.ids) >= 2
    /\ stop.puts = 1

\* C9: a producer inside AddEventNonBlocking never waits: its next step is
\* always enabled.
C9_NeverBlocks ==
    \A q \in Producers : pcP[q] = "L87" => eventsCh # <<>>

\* C10: AddEventNonBlocking discards only when the channel is at capacity at
\* that moment, and a discarded event never reaches the sink nor has its
\* callback invoked.
C10_Eviction ==
    /\ ~evictedEarly
    /\ evicted \cap (doneSet \cup IdsOf(input.LogEvents) \cup IdsOf(p.events)) = {}

\* send() returned holding the buffer h back: the token, the events and their
\* callbacks are those of h and no callback of h was invoked; events received
\* since then follow them; while none has been appended every field of the
\* buffer is as in h
Retained(h) ==
    LET n == Len(h.events) IN
    /\ p.sequenceToken = h.sequenceToken
    /\ IdsOf(h.events) \cap doneSet = {}
    /\ Len(p.events) >= n
    /\ IdsOf(h.events) \subseteq IdsOf(p.events)
    /\ SubSeq(p.doneCallbacks, 1, n) = h.doneCallbacks
    /\ pc # "PutLogEvents" => SubSeq(p.events, 1, n) = h.events
    /\ Len(p.events) = n => [p EXCEPT !.lastValidTime = h.lastValidTime] = h

\* C11: after a ResourceNotFoundException the worker calls CreateLogGroup,
\* then (also when the group exists already) CreateLogStream, then
\* PutLogEvents with the same events and the same token; when the creation
\* fails send() returns with the buffer and the token as they were and no
\* callback invoked; and after a success that returned a NextSequenceToken
\* the stored token and the token of the next request are that one.
C11_Recovery ==
    /\ (reply.call = "PutLogEvents" /\ reply.type = "ResourceNotFound") =>
            (pc = "CreateLogGroup" /\ p = reply.held)
    /\ (reply.call = "CreateLogGroup"
            /\ reply.type \in {"nil", "ResourceAlreadyExists"}) =>
            (pc = "CreateLogStream" /\ p = reply.held)
    /\ (reply.call = "CreateLogStream" /\ reply.type = "nil") =>
            /\ pc = "PutLogEvents" /\ p = reply.held
            /\ input.LogEvents = reply.held.events
            /\ input.SequenceToken = reply.held.sequenceToken
    /\ reply.call = "createLogGroupAndStream" => Retained(reply.held)
    /\ pc = "PutLogEvents" => input.SequenceToken = stored

\* the retry of two events after the stream was created, with a token that an
\* earlier response delivered
C11_Witness ==
    /\ reply.call = "CreateLogStream" /\ reply.type = "nil"
    /\ pc = "PutLogEvents"
    /\ Len(input.LogEvents) >= 2
    /\ input.SequenceToken # <<>>

\* C12: after an InvalidSequenceTokenException with expected token X the
\* worker is in PutLogEvents with the same events and token X, and X is the
\* stored token until a response delivers another; without an expected token
\* send() returns with the buffer, the callbacks and the token as they were
\* and no callback invoked.
C12_ExpectedToken ==
    /\ (reply.call = "PutLogEvents" /\ reply.type = "InvalidSequenceToken"
            /\ reply.token # <<>>) =>
            /\ pc = "PutLogEvents"
            /\ input.LogEvents = reply.held.events
            /\ input.SequenceToken = reply.token
            /\ p = [reply.held EXCEPT !.sequenceToken = reply.token]
    /\ p.sequenceToken = stored
    /\ (reply.call = "PutLogEvents" /\ reply.type = "InvalidSequenceToken"
            /\ reply.token = <<>>) =>
            Retained(reply.held)

\* the retry of two events with the expected token, which the rejected
\* request did not carry
C12_Witness ==
    /\ reply.call = "PutLogEvents" /\ reply.type = "InvalidSequenceToken"
    /\ reply.token # <<>>
    /\ reply.held.sequenceToken # reply.token
    /\ Len(input.LogEvents) >= 2

\* the buffer holds nothing of a batch that was given up
Clean ==
    /\ Len(p.doneCallbacks) = Len(p.events)
    /\ p.bufferredSize = BufferedBytes(p.events)
    /\ (p.minT = <<>>) = (p.events = <<>>)
    /\ (p.maxT = <<>>) = (p.events = <<>>)
    /\ p.needSort => Len(p.events) >= 2

\* C13: after an error other than ResourceNotFoundException and
\* InvalidSequenceTokenException the buffer holds only events received after
\* the call returned, and nothing at all when it was the final flush; an
\* empty buffer has every field reset; the token is the one the last response
\* delivered; the events of the request are in no later request and their
\* callbacks are never invoked.
C13_Dropped ==
    /\ lost \cap doneSet = {}
    /\ lost \cap IdsOf(p.events) = {}
    /\ lost \cap IdsOf(input.LogEvents) = {}
    /\ \A i \in 1..Len(p.doneCallbacks) : p.doneCallbacks[i] \notin lost
    /\ (reply.call = "PutLogEvents" /\ reply.type = "dropped") =>
            /\ last.ids \subseteq lost
            /\ p.sequenceToken = stored
            /\ Clean
            /\ \A i \in 1..Len(p.events) :
                    \A j \in last.ids : p.events[i].id > j
            /\ Len(p.events) = 0 =>
                    p = [NoHeld EXCEPT !.sequenceToken = p.sequenceToken,
                                       !.lastValidTime = p.lastValidTime]
            /\ pc = "exited" => Len(p.events) = 0

\* a batch of two events was given up on a sink-typed error, after a token
\* had been stored; a later event is buffered
C13_Witness ==
    /\ reply.call = "PutLogEvents" /\ reply.type = "dropped"
    /\ Cardinality(last.ids) >= 2
    /\ p.sequenceToken # <<>>
    /\ Len(p.events) = 1

\* C14: whenever the worker waits in its select with a non-empty buffer, the
\* flush timer is running or a value is pending in its channel.
C14_TimerPending ==
    (pc = "select" /\ Len(p.events) > 0) => (timerArmed \/ timerC = 1)

\* C15: a flush called on the timer's channel follows an expiry of the
\* timer's last arming: the timer is not still running from the rearm.
C15_FreshFire ==
    ret = "L147" => ~timerArmed

SinkCalls == {"PutLogEvents", "CreateLogGroup", "CreateLogStream"}

\* the PutLogEvents call in progress is one that send() made by calling itself
Retrying ==
    /\ pc = "PutLogEvents"
    /\ \/ reply.call = "CreateLogStream" /\ reply.type = "nil"
       \/ reply.call = "PutLogEvents" /\ reply.type = "InvalidSequenceToken"
                                      /\ reply.token # <<>>

\* C16: a send() called by start() makes at most two PutLogEvents calls: when
\* the call it made by calling itself returns, the worker makes no further
\* sink call before send() has returned to start().
C16_RetryOnce ==
    [][(Retrying /\ <<pc, reply>>' # <<pc, reply>>) =>
          (pc' \notin SinkCalls \/ ret' # ret)]_vars

\* the step in which the worker takes an event from eventsCh
WorkerTakes ==
    /\ pc = "select" /\ eventsCh # <<>>
    /\ eventsCh' = Tail(eventsCh) /\ evicted' = evicted

\* C17 as stated: once Stop() has cancelled the context the worker takes no
\* event from eventsCh.
C17_NoTakeAfterStop ==
    [][ctxDone => ~WorkerTakes]_vars

\* C17 as amended: once the worker has taken the arm of ctx.Done() it takes
\* no event from eventsCh and appends none: it is in the final send() or has
\* returned, and every request of the final send() carries the events that
\* were buffered when it took that arm.
C17_StopsOnReceipt ==
    [][shutting' =>
          /\ ctxDone'
          /\ ~WorkerTakes
          /\ pc' \in SinkCalls \cup {"exited"}
          /\ ret' \in {"L151", "none"}
          /\ IdsOf(p'.events) \subseteq IdsOf(p.events)
          /\ pc' = "PutLogEvents" =>
                 /\ input'.LogEvents # <<>>
                 /\ IdsOf(input'.LogEvents) = IdsOf(p.events)]_vars

\* the worker has returned after a final flush that the sink accepted, having
\* taken an event after Stop(), with an event left in eventsCh
C17_Witness ==
    /\ shutting /\ pc = "exited"
    /\ eventsCh # <<>>
    /\ stop.premise /\ stop.received
    /\ stop.ids \subseteq doneSet

\* the size of the wire event of e, and the three limits as an arrival meets
\* them on the buffer b
WireSize(e) == (IF e.msg > msgSizeLimit THEN msgSizeLimit ELSE e.msg) + eventHeaderSize

Exceeds(b, e) ==
    \/ b.bufferredSize + WireSize(e) > reqSizeLimit
    \/ Len(b.events) = reqEventsLimit
    \/ b.minT # <<>> /\ Sub(e.time, b.minT[1]) > 24 * Hour
    \/ b.maxT # <<>> /\ Sub(b.maxT[1], e.time) > 24 * Hour

\* C18: an arrival that exceeds a limit makes the worker call PutLogEvents
\* with the buffer before it appends the event; an arrival within the limits
\* is appended without a flush; and when the flush has returned the arriving
\* event is the only element of the buffer.
C18_FlushFirst ==
    [][/\ (WorkerTakes /\ Exceeds(p, Head(eventsCh))) =>
             /\ pc' = "PutLogEvents"
             /\ input'.LogEvents # <<>>
             /\ IdsOf(input'.LogEvents) = IdsOf(p.events)
             /\ cur' = Head(eventsCh)
       /\ (WorkerTakes /\ ~Exceeds(p, Head(eventsCh))) =>
             /\ pc' = "select"
             /\ IdSeq(p'.events) = Append(IdSeq(p.events), Head(eventsCh).id)
       /\ (pc \in SinkCalls /\ cur # NoEvent /\ pc' = "select") =>
             IdSeq(p'.events) = <<cur.id>>]_vars

\* C19: no PutLogEvents request is without events: the request in flight
\* carries the buffer, and the buffer is not empty.
C19_NonEmpty ==
    pc = "PutLogEvents" =>
        /\ input.LogEvents # <<>>
        /\ input.LogEvents = p.events

\* the inline retry of a send() called by the span check, after an earlier
\* request emptied the buffer
C19_Witness ==
    /\ pc = "PutLogEvents" /\ ret = "L122"
    /\ reply.call = "CreateLogStream" /\ reply.type = "nil"
    /\ doneSet # {}

\* C20: after Stop() the worker eventually leaves its loop, and a send()
\* that a trigger started eventually returns to the loop, whatever the sink
\* answers, as long as each sink call returns
C20_WorkerExits ==
    /\ ctxDone ~> (pc = "exited")
    /\ (pc \in SinkCalls) ~> (pc \in {"select", "exited"})

====
